---- MODULE Spec2Model ----
(***************************************************************************)
(* Model of src/test-multi-gpu.py: the fan-out / fan-in harness            *)
(* test_multi_gpu and its worker run_model_on_gpu.                         *)
(*                                                                         *)
(* The harness starts one multiprocessing.Process per gpu_id, joins them   *)
(* all, drains a multiprocessing.Queue and prints the results sorted by    *)
(* gpu_id.  The queue is modelled as CPython implements it: put() appends  *)
(* to a buffer local to the writing process, a feeder thread of that       *)
(* process moves buffered batches into an OS pipe of bounded capacity, a   *)
(* process joins its feeder thread (so flushes its buffer) before it       *)
(* exits, empty() polls the pipe and get() reads one batch from it.        *)
(*                                                                         *)
(* The inference service (LLM construction, generate) is opaque: each call *)
(* either returns or raises, and a response is represented by its size in  *)
(* pipe units.  Sequences are 1-based: prompt index i of the model is      *)
(* Python index i - 1.                                                     *)
(***************************************************************************)
EXTENDS Integers, Sequences, FiniteSets, TLC

\* range(3): the number of worker processes / gpu ids
NumGpus == 3
\* every list of gpu_prompts holds two prompts
PromptsPerGpu == 2
\* largest size of one response, in pipe units
MaxRespSize == 2
\* capacity of the OS pipe under the results queue, in the same units
PipeCap == 12

Procs == 0 .. (NumGpus - 1)
RespSizes == 1 .. MaxRespSize
NoGpu == 0 - 1

VARIABLES
    hpc,          \* harness position: "start", "join", "drain", "display", "done"
    hi,           \* harness loop index (for gpu_id in range(3) / for process in processes)
    processes,    \* the list `processes`: indices of the started processes
    pc,           \* pc[p]: position of worker process p
    gpu_id,       \* gpu_id[p]: the gpu_id argument process p was created with
    prompts,      \* prompts[p]: the prompts argument process p was created with
    parent_env,   \* CUDA_VISIBLE_DEVICES in the harness process
    env,          \* env[p]: CUDA_VISIBLE_DEVICES in worker process p
    outputs,      \* outputs[p]: what llm.generate returned in p
    failed,       \* failed[p]: p's try block raised
    written,      \* written[p]: the batches p passed to results_queue.put
    buffer,       \* buffer[p]: batches put by p and not yet written to the pipe
    pipe,         \* batches in the pipe, in arrival order
    got,          \* the batches results_queue.get returned to the harness
    all_results,  \* the list all_results
    displayed     \* the sequence of results printed by the display loop

vars == <<hpc, hi, processes, pc, gpu_id, prompts, parent_env, env, outputs,
          failed, written, buffer, pipe, got, all_results, displayed>>

----------------------------------------------------------------------------
(* Pure helpers *)

Digits == <<"0", "1", "2", "3", "4", "5", "6", "7", "8", "9">>

\* str(gpu_id)
RECURSIVE Str(_)
Str(n) == IF n < 10 THEN Digits[n + 1] ELSE Str(n \div 10) \o Digits[(n % 10) + 1]

\* gpu_prompts[g]: the prompts of gpu g; the six prompts are distinct strings,
\* identified here by the numbers 1 .. NumGpus * PromptsPerGpu
gpu_prompts(g) == [i \in 1 .. PromptsPerGpu |-> g * PromptsPerGpu + i]

\* the result list built by the loop over enumerate(outputs)
BuildResults(g, ps, outs) ==
    [i \in 1 .. Len(outs) |-> [gpu_id |-> g, prompt |-> ps[i], response |-> outs[i]]]

RECURSIVE SumResp(_)
SumResp(batch) ==
    IF batch = <<>> THEN 0 ELSE Head(batch).response + SumResp(Tail(batch))

\* bytes a pickled batch takes in the pipe: framing plus the responses
BatchSize(batch) == 1 + SumResp(batch)

RECURSIVE PipeBytes(_)
PipeBytes(q) == IF q = <<>> THEN 0 ELSE BatchSize(Head(q)) + PipeBytes(Tail(q))

\* insert e into the sorted sequence s after every element whose key is <= e's
RECURSIVE InsertStable(_, _)
InsertStable(s, e) ==
    IF s = <<>> THEN <<e>>
    ELSE IF Head(s).gpu_id <= e.gpu_id
         THEN <<Head(s)>> \o InsertStable(Tail(s), e)
         ELSE <<e>> \o s

\* a sort that puts e before the elements of equal key
RECURSIVE InsertUnstable(_, _)
InsertUnstable(s, e) ==
    IF s = <<>> THEN <<e>>
    ELSE IF Head(s).gpu_id < e.gpu_id
         THEN <<Head(s)>> \o InsertUnstable(Tail(s), e)
         ELSE <<e>> \o s

RECURSIVE SortUnstable(_)
SortUnstable(s) ==
    IF s = <<>> THEN <<>>
    ELSE InsertUnstable(SortUnstable(SubSeq(s, 1, Len(s) - 1)), s[Len(s)])

\* sorted(all_results, key=lambda x: x['gpu_id']): a stable sort
RECURSIVE SortByGpuId(_)
SortByGpuId(s) ==
    IF s = <<>> THEN <<>>
    ELSE InsertStable(SortByGpuId(SubSeq(s, 1, Len(s) - 1)), s[Len(s)])

----------------------------------------------------------------------------
(* Initial state: test_multi_gpu has created the empty queue and list *)

Init ==
    /\ hpc = "start"
    /\ hi = 0
    /\ processes = <<>>
    /\ pc = [p \in Procs |-> "unstarted"]
    /\ gpu_id = [p \in Procs |-> NoGpu]
    /\ prompts = [p \in Procs |-> <<>>]
    /\ parent_env = "unset"
    /\ env = [p \in Procs |-> "unset"]
    /\ outputs = [p \in Procs |-> <<>>]
    /\ failed = [p \in Procs |-> FALSE]
    /\ written = [p \in Procs |-> <<>>]
    /\ buffer = [p \in Procs |-> <<>>]
    /\ pipe = <<>>
    /\ got = <<>>
    /\ all_results = <<>>
    /\ displayed = <<>>

----------------------------------------------------------------------------
(* The harness, test_multi_gpu *)

\* a Start that hands every process the same gpu_id
StartSameGpu ==
    /\ hpc = "start"
    /\ hi < NumGpus
    /\ processes' = Append(processes, hi)
    /\ pc' = [pc EXCEPT ![hi] = "setenv"]
    /\ gpu_id' = [gpu_id EXCEPT ![hi] = 0]
    /\ prompts' = [prompts EXCEPT ![hi] = gpu_prompts(hi)]
    /\ env' = [env EXCEPT ![hi] = parent_env]
    /\ hi' = hi + 1
    /\ UNCHANGED <<hpc, parent_env, outputs, failed, written, buffer, pipe,
                   got, all_results, displayed>>

\* one iteration of `for gpu_id in range(3)`: create the process with
\* args=(gpu_id, model_name, gpu_prompts[gpu_id], results_queue), append it to
\* processes and start it; the child inherits the parent's environment
Start ==
    /\ hpc = "start"
    /\ hi < NumGpus
    /\ processes' = Append(processes, hi)
    /\ pc' = [pc EXCEPT ![hi] = "setenv"]
    /\ gpu_id' = [gpu_id EXCEPT ![hi] = hi]
    /\ prompts' = [prompts EXCEPT ![hi] = gpu_prompts(hi)]
    /\ env' = [env EXCEPT ![hi] = parent_env]
    /\ hi' = hi + 1
    /\ UNCHANGED <<hpc, parent_env, outputs, failed, written, buffer, pipe,
                   got, all_results, displayed>>

\* the start loop is exhausted: go on to the join loop
StartDone ==
    /\ hpc = "start"
    /\ hi = NumGpus
    /\ hpc' = "join"
    /\ hi' = 0
    /\ UNCHANGED <<processes, pc, gpu_id, prompts, parent_env, env, outputs,
                   failed, written, buffer, pipe, got, all_results, displayed>>

\* a join that returns whether or not the process has terminated
JoinNoWait ==
    /\ hpc = "join"
    /\ hi < Len(processes)
    /\ hi' = hi + 1
    /\ UNCHANGED <<hpc, processes, pc, gpu_id, prompts, parent_env, env,
                   outputs, failed, written, buffer, pipe, got, all_results,
                   displayed>>

\* one iteration of `for process in processes: process.join()`: returns once
\* that process has terminated
Join ==
    /\ hpc = "join"
    /\ hi < Len(processes)
    /\ pc[processes[hi + 1]] = "terminated"
    /\ hi' = hi + 1
    /\ UNCHANGED <<hpc, processes, pc, gpu_id, prompts, parent_env, env,
                   outputs, failed, written, buffer, pipe, got, all_results,
                   displayed>>

\* the join loop is exhausted: all_results = []
JoinDone ==
    /\ hpc = "join"
    /\ hi = Len(processes)
    /\ hpc' = "drain"
    /\ all_results' = <<>>
    /\ UNCHANGED <<hi, processes, pc, gpu_id, prompts, parent_env, env,
                   outputs, failed, written, buffer, pipe, got, displayed>>

\* a drain loop that stops at the first empty batch
DrainGetStopOnEmpty ==
    /\ hpc = "drain"
    /\ pipe # <<>>
    /\ got' = Append(got, Head(pipe))
    /\ all_results' = all_results \o Head(pipe)
    /\ pipe' = Tail(pipe)
    /\ hpc' = IF Head(pipe) = <<>> THEN "display" ELSE "drain"
    /\ UNCHANGED <<hi, processes, pc, gpu_id, prompts, parent_env, env,
                   outputs, failed, written, buffer, displayed>>

\* `while not results_queue.empty()` finds the pipe readable:
\* gpu_results = results_queue.get(); all_results.extend(gpu_results)
DrainGet ==
    /\ hpc = "drain"
    /\ pipe # <<>>
    /\ got' = Append(got, Head(pipe))
    /\ all_results' = all_results \o Head(pipe)
    /\ pipe' = Tail(pipe)
    /\ UNCHANGED <<hpc, hi, processes, pc, gpu_id, prompts, parent_env, env,
                   outputs, failed, written, buffer, displayed>>

\* results_queue.empty() reports empty: the loop exits
DrainExit ==
    /\ hpc = "drain"
    /\ pipe = <<>>
    /\ hpc' = "display"
    /\ UNCHANGED <<hi, processes, pc, gpu_id, prompts, parent_env, env,
                   outputs, failed, written, buffer, pipe, got, all_results,
                   displayed>>

\* the display loop over sorted(all_results, key=gpu_id); test_multi_gpu returns
Display ==
    /\ hpc = "display"
    /\ displayed' = SortByGpuId(all_results)
    /\ hpc' = "done"
    /\ UNCHANGED <<hi, processes, pc, gpu_id, prompts, parent_env, env,
                   outputs, failed, written, buffer, pipe, got, all_results>>

----------------------------------------------------------------------------
(* The worker, run_model_on_gpu, in process p *)

\* an assignment to an environment shared by the parent and all workers
SetEnvShared(p) ==
    /\ pc[p] = "setenv"
    /\ env' = [q \in Procs |-> Str(gpu_id[p])]
    /\ parent_env' = Str(gpu_id[p])
    /\ pc' = [pc EXCEPT ![p] = "construct"]
    /\ UNCHANGED <<hpc, hi, processes, gpu_id, prompts, outputs, failed,
                   written, buffer, pipe, got, all_results, displayed>>

\* os.environ['CUDA_VISIBLE_DEVICES'] = str(gpu_id), in p's own process
SetEnv(p) ==
    /\ pc[p] = "setenv"
    /\ env' = [env EXCEPT ![p] = Str(gpu_id[p])]
    /\ pc' = [pc EXCEPT ![p] = "construct"]
    /\ UNCHANGED <<hpc, hi, processes, gpu_id, prompts, parent_env, outputs,
                   failed, written, buffer, pipe, got, all_results, displayed>>

\* llm = LLM(...) returns
ConstructLLM(p) ==
    /\ pc[p] = "construct"
    /\ pc' = [pc EXCEPT ![p] = "generate"]
    /\ UNCHANGED <<hpc, hi, processes, gpu_id, prompts, parent_env, env,
                   outputs, failed, written, buffer, pipe, got, all_results,
                   displayed>>

\* LLM(...) raises: control goes to the except clause
ConstructRaises(p) ==
    /\ pc[p] = "construct"
    /\ pc' = [pc EXCEPT ![p] = "except"]
    /\ failed' = [failed EXCEPT ![p] = TRUE]
    /\ UNCHANGED <<hpc, hi, processes, gpu_id, prompts, parent_env, env,
                   outputs, written, buffer, pipe, got, all_results, displayed>>

\* outputs = llm.generate(prompts, sampling_params) returns one output per prompt
Generate(p) ==
    /\ pc[p] = "generate"
    /\ \E outs \in [1 .. Len(prompts[p]) -> RespSizes] :
           outputs' = [outputs EXCEPT ![p] = outs]
    /\ pc' = [pc EXCEPT ![p] = "collect"]
    /\ UNCHANGED <<hpc, hi, processes, gpu_id, prompts, parent_env, env,
                   failed, written, buffer, pipe, got, all_results, displayed>>

\* llm.generate raises: control goes to the except clause
GenerateRaises(p) ==
    /\ pc[p] = "generate"
    /\ pc' = [pc EXCEPT ![p] = "except"]
    /\ failed' = [failed EXCEPT ![p] = TRUE]
    /\ UNCHANGED <<hpc, hi, processes, gpu_id, prompts, parent_env, env,
                   outputs, written, buffer, pipe, got, all_results, displayed>>

\* the collect loop, then results_queue.put(results); the function returns
PutResults(p) ==
    /\ pc[p] = "collect"
    /\ LET results == BuildResults(gpu_id[p], prompts[p], outputs[p]) IN
          /\ buffer' = [buffer EXCEPT ![p] = Append(@, results)]
          /\ written' = [written EXCEPT ![p] = Append(@, results)]
    /\ pc' = [pc EXCEPT ![p] = "exiting"]
    /\ UNCHANGED <<hpc, hi, processes, gpu_id, prompts, parent_env, env,
                   outputs, failed, pipe, got, all_results, displayed>>

\* an except clause that reports nothing
ExceptNoPut(p) ==
    /\ pc[p] = "except"
    /\ pc' = [pc EXCEPT ![p] = "exiting"]
    /\ UNCHANGED <<hpc, hi, processes, gpu_id, prompts, parent_env, env,
                   outputs, failed, written, buffer, pipe, got, all_results,
                   displayed>>

\* except Exception: results_queue.put([]); the function returns
ExceptPut(p) ==
    /\ pc[p] = "except"
    /\ buffer' = [buffer EXCEPT ![p] = Append(@, <<>>)]
    /\ written' = [written EXCEPT ![p] = Append(@, <<>>)]
    /\ pc' = [pc EXCEPT ![p] = "exiting"]
    /\ UNCHANGED <<hpc, hi, processes, gpu_id, prompts, parent_env, env,
                   outputs, failed, pipe, got, all_results, displayed>>

\* p's queue feeder thread writes the oldest buffered batch to the pipe; the
\* write completes only when the pipe has room for the batch
Feed(p) ==
    /\ pc[p] = "exiting"
    /\ buffer[p] # <<>>
    /\ PipeBytes(pipe) + BatchSize(Head(buffer[p])) <= PipeCap
    /\ pipe' = Append(pipe, Head(buffer[p]))
    /\ buffer' = [buffer EXCEPT ![p] = Tail(@)]
    /\ UNCHANGED <<hpc, hi, processes, pc, gpu_id, prompts, parent_env, env,
                   outputs, failed, written, got, all_results, displayed>>

\* a process exit that does not wait for the feeder thread
ExitNoFlush(p) ==
    /\ pc[p] = "exiting"
    /\ pc' = [pc EXCEPT ![p] = "terminated"]
    /\ UNCHANGED <<hpc, hi, processes, gpu_id, prompts, parent_env, env,
                   outputs, failed, written, buffer, pipe, got, all_results,
                   displayed>>

\* the process ends: it joins its feeder thread, so it terminates only when
\* everything it put has been written to the pipe
Exit(p) ==
    /\ pc[p] = "exiting"
    /\ buffer[p] = <<>>
    /\ pc' = [pc EXCEPT ![p] = "terminated"]
    /\ UNCHANGED <<hpc, hi, processes, gpu_id, prompts, parent_env, env,
                   outputs, failed, written, buffer, pipe, got, all_results,
                   displayed>>

----------------------------------------------------------------------------

Worker(p) ==
    \/ SetEnv(p)
    \/ ConstructLLM(p)
    \/ ConstructRaises(p)
    \/ Generate(p)
    \/ GenerateRaises(p)
    \/ PutResults(p)
    \/ ExceptPut(p)
    \/ Feed(p)
    \/ Exit(p)

Harness ==
    \/ Start
    \/ StartDone
    \/ Join
    \/ JoinDone
    \/ DrainGet
    \/ DrainExit
    \/ Display

Next == Harness \/ \E p \in Procs : Worker(p)

Spec == Init /\ [][Next]_vars

----------------------------------------------------------------------------
(* Vocabulary of the properties *)

Alive(p) == pc[p] \notin {"unstarted", "terminated"}
Scoped(p) == pc[p] \notin {"unstarted", "setenv"}
Returned(p) == pc[p] \in {"exiting", "terminated"}

\* the entries of sequence s that carry gpu id g, in the order of s
EntriesOf(s, g) == LET Mine(e) == e.gpu_id = g IN SelectSeq(s, Mine)

\* how many entries of all_results are the result of prompt x on gpu g
CountOf(g, x) ==
    Cardinality({k \in 1 .. Len(all_results) :
                    all_results[k].gpu_id = g /\ all_results[k].prompt = x})

\* an entry that carries an error descriptor
ErrorTagged(e) == "error" \in DOMAIN e

\* the position of prompt x in the prompt list of gpu g
IndexIn(g, x) == CHOOSE i \in 1 .. PromptsPerGpu : gpu_prompts(g)[i] = x

RECURSIVE TotalWritten(_)
TotalWritten(S) ==
    IF S = {} THEN 0
    ELSE LET p == CHOOSE q \in S : TRUE IN Len(written[p]) + TotalWritten(S \ {p})

----------------------------------------------------------------------------
(* C1 *)

\* C1: when test_multi_gpu has finished, all_results holds exactly one entry
\* for every dispatched (gpu_id, prompt) pair, whether the worker's
\* computation succeeded or raised.
C1_OneEntryPerPair ==
    hpc = "done" =>
        \A p \in Procs : \A i \in 1 .. Len(prompts[p]) :
            CountOf(gpu_id[p], prompts[p][i]) = 1

(* C2 *)

\* C2: when test_multi_gpu has finished, a worker whose computation raised
\* has entries in all_results, and they are tagged as errors.
C2_FailedWorkerTagged ==
    hpc = "done" =>
        \A p \in Procs : failed[p] =>
            \E k \in 1 .. Len(all_results) :
                /\ all_results[k].gpu_id = gpu_id[p]
                /\ ErrorTagged(all_results[k])

(* C3 *)

C4_NoHang == hpc = "done" \/ ENABLED Next

(* C5 *)

\* C5: the displayed sequence is all_results reordered so that gpu ids are
\* non-decreasing and, among entries of one gpu id, prompts appear in the
\* order of that worker's prompt list.
C5_DisplaySorted ==
    hpc = "done" =>
        /\ Len(displayed) = Len(all_results)
        /\ \A g \in Procs : Len(EntriesOf(displayed, g)) = Len(EntriesOf(all_results, g))
        /\ \A a, b \in 1 .. Len(displayed) :
               a < b =>
                   \/ displayed[a].gpu_id < displayed[b].gpu_id
                   \/ /\ displayed[a].gpu_id = displayed[b].gpu_id
                      /\ IndexIn(displayed[a].gpu_id, displayed[a].prompt)
                             < IndexIn(displayed[b].gpu_id, displayed[b].prompt)

C5_Witness ==
    /\ hpc = "done"
    /\ Len(displayed) = NumGpus * PromptsPerGpu
    /\ all_results[1].gpu_id = NumGpus - 1
    /\ all_results[Len(all_results)].gpu_id = 0

(* C6 *)

C6_Exclusive ==
    \A p, q \in Procs :
        (p # q /\ Alive(p) /\ Alive(q)) =>
            /\ gpu_id[p] # gpu_id[q]
            /\ (Scoped(p) /\ Scoped(q)) => env[p] # env[q]

C6_KeepsGpu ==
    \A p \in Procs : pc[p] # "unstarted" => gpu_id'[p] = gpu_id[p]

\* C6: no two worker processes alive at the same time are bound to the same
\* gpu_id, and a started worker's gpu_id never changes.
C6_OneOwnerPerGpu == []C6_Exclusive /\ [][C6_KeepsGpu]_vars

C6_Witness ==
    /\ \A p \in Procs : Alive(p) /\ Scoped(p)
    /\ Cardinality({gpu_id[p] : p \in Procs}) = NumGpus

(* C7 *)

C7_SetBeforeInference ==
    /\ parent_env = "unset"
    /\ \A p \in Procs : Scoped(p) => env[p] = Str(gpu_id[p])

C7_Frame ==
    /\ parent_env' = parent_env
    /\ \A p \in Procs :
           /\ env'[p] # env[p] =>
                  /\ pc[p] = "setenv"
                  /\ env'[p] = Str(gpu_id[p])
                  /\ \A q \in Procs \ {p} : env'[q] = env[q]
           /\ Scoped(p) => pc'[p] # "setenv"

\* C7: a worker's CUDA_VISIBLE_DEVICES is its own gpu_id from before LLM
\* construction on; it is written only by that worker's single setenv step,
\* which changes neither the parent's setting nor any sibling's.
C7_EnvScopedOnce == []C7_SetBeforeInference /\ [][C7_Frame]_vars

C7_Witness ==
    /\ pc[0] = "setenv" /\ env[0] = "unset"
    /\ pc[1] = "collect" /\ env[1] = "1"
    /\ pc[2] = "generate" /\ env[2] = "2"
    /\ parent_env = "unset"

(* C8 *)

\* C8: once the drain loop has exited, nothing a worker put is left in a
\* feeder buffer or in the pipe: the harness got as many batches as were put
\* and every entry of every batch put is in all_results.
C8_DrainComplete ==
    hpc \in {"display", "done"} =>
        /\ pipe = <<>>
        /\ \A p \in Procs : buffer[p] = <<>>
        /\ Len(got) = TotalWritten(Procs)
        /\ \A p \in Procs : \A k \in 1 .. Len(written[p]) :
               \A i \in 1 .. Len(written[p][k]) :
                   \E j \in 1 .. Len(all_results) : all_results[j] = written[p][k][i]

C8_Witness ==
    /\ hpc = "display"
    /\ Len(got) = NumGpus
    /\ \E k \in 1 .. Len(got) : got[k] = <<>>
    /\ \E k \in 1 .. Len(got) : Len(got[k]) = PromptsPerGpu

(* C9 *)

\* C9: a worker whose function has returned has put exactly one batch, the
\* per-prompt results if nothing raised and the empty list otherwise, and a
\* terminated worker has flushed it to the pipe.
C9_OneBatchPerWorker ==
    \A p \in Procs :
        /\ Returned(p) =>
               /\ Len(written[p]) = 1
               /\ written[p][1] =
                      IF failed[p] THEN <<>>
                      ELSE [i \in 1 .. PromptsPerGpu |->
                               [gpu_id |-> gpu_id[p], prompt |-> prompts[p][i],
                                response |-> outputs[p][i]]]
        /\ pc[p] = "terminated" => buffer[p] = <<>>
        /\ ~Returned(p) => written[p] = <<>>

C9_Witness ==
    /\ \A p \in Procs : pc[p] = "terminated"
    /\ failed[0] /\ written[0] = <<(<<>>)>>
    /\ ~failed[1] /\ Len(written[1][1]) = PromptsPerGpu

(* C10 *)

\* C10: starting the next process never waits for a started one, and the
\* harness reads the queue only after every process has terminated.
C10_StartAllThenJoinAll ==
    /\ (hpc = "start" /\ hi < NumGpus) => ENABLED Start
    /\ (hpc \in {"drain", "display", "done"} \/ got # <<>>) =>
           \A p \in Procs : pc[p] = "terminated"

C10_Witness ==
    /\ hpc = "drain"
    /\ Len(got) = 1
    /\ pipe # <<>>

====
